---- MODULE Spec2Model ----
(***************************************************************************)
(* Model of src/src/index.ts: the daily activity report generator.         *)
(*                                                                         *)
(* One run of the script is a single thread of control.  Every `await` of  *)
(* the source is a pair of actions: the call, which puts a request in      *)
(* flight and suspends, and the receipt, which takes the answer or the     *)
(* failure and resumes.  What the hosting platform answers (a body, or a   *)
(* failure) is an input, drawn when the answer arrives.                    *)
(*                                                                         *)
(* Text is modelled line by line: the report is a sequence of lines, each  *)
(* a tuple of the template it comes from and the values interpolated.      *)
(* The `since` window the collectors put in their URLs is not modelled:    *)
(* it only selects what the platform answers, which is an input here.      *)
(***************************************************************************)
EXTENDS Integers, Sequences, FiniteSets, TLC

(* ------------------------------ bounds --------------------------------- *)
\* Longest configuration list (config.repos).
MaxRepos == 2
\* Largest number of issues + pull requests + commits received and held by
\* the script at any time, over all repositories together.
MaxItems == 2
\* Longest file list of one commit's detail payload.
MaxFiles == 2
\* The same for the runs checked for termination, under fairness.
MaxFairItems == 1
\* Most items in the list handed to generateReport when it is called twice.
MaxGenItems == 1

(* ----------------------------- vocabulary ------------------------------ *)
Unset == "undefined"
Empty == ""
CredValues == {Unset, Empty, "set"}
Me == "set"
Other == "other"
Null == "null"
Ts == "2024-11-07T10:00:00Z"
Today == "7/11/2024"
Dates == {Today, "8/11/2024"}
NoFile == <<<<"no such file">>>>
OldReport == <<<<"old report">>>>

VARIABLES
    token,        \* GITHUB_TOKEN as read from the environment
    user,         \* GITHUB_USER as read from the environment
    config,       \* config.repos
    budget,       \* most items the platform lets the script hold in this run
    clock,        \* the current local date
    pc,           \* control point of the script
    exitCode,     \* process exit status: <<>> while running, then <<status>>
    i,            \* position of the orchestrator loop in config.repos
    issues, prs, commits,   \* locals of the try block
    pullsBody,    \* getMergedPRs: res.data
    allData,      \* accumulated repository entries
    inflight,     \* HTTP requests issued and not yet answered
    content,      \* generateReport: the text assembled so far
    gi,           \* generateReport: position in allData
    ci,           \* generateReport: position in data.commits
    files,        \* generateReport: result of getModifiedFiles
    reportFile,   \* contents of ../report.md
    writeAttempts,\* calls of fs.writeFile
    writes,       \* calls of fs.writeFile that succeeded
    reqCount,     \* HTTP requests issued so far
    lastReq,      \* the most recent HTTP request and how it ended
    failed,       \* config positions at which a collector call failed
    fetchedPulls, \* per accumulated repository, the pull requests received
    detailLog,    \* answers of the commit-detail requests of this generator call
    run,          \* which call of generateReport this is
    firstRun      \* what the first call saw and produced

vars == <<token, user, config, budget, clock, pc, exitCode, i, issues, prs, commits,
          pullsBody, allData, inflight, content, gi, ci, files, reportFile,
          writeAttempts, writes, reqCount, lastReq, failed, fetchedPulls,
          detailLog, run, firstRun>>

\* Groups of variables, for the UNCHANGED clauses.
envVars == <<token, user, config, budget>>
tryVars == <<issues, prs, commits, pullsBody>>
genVars == <<content, gi, ci, files>>
fileVars == <<reportFile, writeAttempts, writes>>
netVars == <<inflight, reqCount, lastReq>>
runVars == <<run, firstRun>>

(* ----------------------- answers of the platform ----------------------- *)
PRKinds == {[merged_at |-> m, login |-> l] : m \in {Null, Ts}, l \in {Me, Other}}
SeqsUpTo(S, n) == UNION {[1..k -> S] : k \in 0..n}

ConfigOf(n) == [p \in 1..n |-> [name |-> p, label |-> <<"label", p>>]]

\* Response bodies of the four endpoints.
IssuesBody(repo, len) ==
    [n \in 1..len |->
        [title |-> <<"issue", repo, n>>, html_url |-> <<"url", "issues", repo, n>>]]
PullsBody(repo, kinds) ==
    [n \in 1..Len(kinds) |->
        [title |-> <<"pull", repo, n>>, html_url |-> <<"url", "pull", repo, n>>,
         merged_at |-> kinds[n].merged_at,
         user |-> [login |-> kinds[n].login]]]
CommitsBody(repo, len) ==
    [n \in 1..len |->
        [sha |-> n, commit |-> [message |-> <<"msg", repo, n>>],
         html_url |-> <<"url", "commit", repo, n>>]]
\* The single-commit payload: without a `files` member, or with k files.
NoBody == [hasFiles |-> FALSE, files |-> <<>>]
DetailBodies ==
    {NoBody} \cup
    {[hasFiles |-> TRUE, files |-> [j \in 1..k |-> [filename |-> <<"path", j>>]]] :
        k \in 0..MaxFiles}

RECURSIVE SumLen(_, _)
\* Total length of field f over the entries of a sequence of records.
SumLen(s, f) == IF Len(s) = 0 THEN 0 ELSE Len(s[1][f]) + SumLen(Tail(s), f)
\* Items the script holds: in the accumulated entries and in the locals.
Held ==
    SumLen(allData, "issues") + SumLen(fetchedPulls, "body")
        + SumLen(allData, "commits") + Len(issues) + Len(pullsBody) + Len(commits)
Room == budget - Held

(* ------------------------- pure parts of the code ---------------------- *)
Falsy(x) == x \in {Unset, Empty}

\* Variant: the test written with && instead of ||.
MissingCredentialsBoth(t, u) == Falsy(t) /\ Falsy(u)
\* Line 16.
MissingCredentials(t, u) == Falsy(t) \/ Falsy(u)

\* Variant: the call without `await`; control goes on at once.
NoAwait(waitPc, contPc) == contPc
\* `await`: control stays at the waiting point until the answer arrives.
Await(waitPc, contPc) == waitPc

\* Variant: the filter written with || instead of &&.
IsMineEither(pr, u) == pr.merged_at # Null \/ pr.user.login = u
\* getMergedPRs: the client-side filter.
IsMine(pr, u) == pr.merged_at # Null /\ pr.user.login = u
MergedPRs(body, u) == SelectSeq(body, LAMBDA pr : IsMine(pr, u))

\* getTodaysCommits: the projection.
ProjectCommits(body) ==
    [n \in 1..Len(body) |->
        [sha |-> body[n].sha, message |-> body[n].commit.message,
         html_url |-> body[n].html_url]]

\* Variant: only the first file of the payload is taken.
ExtractFilesFirst(body) ==
    IF body.hasFiles /\ Len(body.files) > 0 THEN <<body.files[1].filename>>
    ELSE <<>>
\* getModifiedFiles: res.data.files?.map(file => file.filename) || []
ExtractFiles(body) ==
    IF body.hasFiles THEN [j \in 1..Len(body.files) |-> body.files[j].filename]
    ELSE <<>>

\* Variant: unshift instead of push.
PushFront(all, entry) == <<entry>> \o all
\* allData.push(...)
Push(all, entry) == Append(all, entry)

\* Variant: one try/catch per collector call; the next collector still runs.
CatchTargetContinue(stage) ==
    IF stage = "issues" THEN "call_prs"
    ELSE IF stage = "pulls" THEN "call_commits" ELSE "push"
\* The catch block of the orchestrator loop: log, then the next iteration.
CatchTarget(stage) == "next"

\* Loop tests of the two for-of loops.
MoreRepos(k, cfg) == k <= Len(cfg)
\* Variant: the generator's loop stops one entry early.
MoreEntriesOffByOne(k, all) == k < Len(all)
MoreEntries(k, all) == k <= Len(all)

\* Variant: content is not a fresh local; it keeps the text of an earlier call.
StartContentKept(old, date) == old \o <<<<"title">>, <<"fecha", date>>>>
\* generateReport: `let content = ...` (title and date).
StartContent(old, date) == <<<<"title">>, <<"fecha", date>>>>

\* Lines 75-81 and 84-90: the list items, or the placeholder.
ItemLines(items) ==
    IF Len(items) = 0 THEN <<<<"ninguno">>>>
    ELSE [n \in 1..Len(items) |-> <<"link", items[n].title, items[n].html_url>>]

\* Lines 72-96: everything of one repository up to its first commit.
SectionHead(data) ==
    <<<<"repo", data.label, data.repo>>, <<"issues_h", data.label>>>>
        \o ItemLines(data.issues)
        \o <<<<"prs_h", data.label>>>> \o ItemLines(data.prs)
        \o <<<<"commits_h", data.label>>>>
        \o (IF Len(data.commits) = 0 THEN <<<<"ninguno">>>> ELSE <<>>)

\* Lines 98-99.
CommitHead(commit) == <<<<"commit", commit.message>>, <<"ver", commit.html_url>>>>

\* Lines 102-111.
FileLines(fs) ==
    (IF Len(fs) > 0
     THEN <<<<"archivos">>>> \o [j \in 1..Len(fs) |-> <<"file", fs[j]>>]
     ELSE <<<<"sin_archivos">>>>)
        \o <<<<"sep">>>>

\* What a write of `text` that failed after the open can leave in the file:
\* the first k lines, or the first k lines and a piece of the next one.
TruncatedFiles(text) ==
    {SubSeq(text, 1, k) : k \in 0..Len(text)}
        \cup {Append(SubSeq(text, 1, k), <<"cut", text[k + 1]>>) :
                  k \in 0..(Len(text) - 1)}

(* ------------------------------- Init ---------------------------------- *)
NoReq == [kind |-> "none", pos |-> 0, result |-> "none"]
NoRun == [date |-> "", log |-> <<>>, output |-> NoFile]

InitCommon ==
    /\ clock = Today
    /\ exitCode = <<>>
    /\ issues = <<>> /\ prs = <<>> /\ commits = <<>> /\ pullsBody = <<>>
    /\ inflight = {}
    /\ content = <<>>
    /\ gi = 1 /\ ci = 1
    /\ files = <<>>
    /\ writeAttempts = 0 /\ writes = 0
    /\ reqCount = 0
    /\ lastReq = NoReq
    /\ failed = {}
    /\ detailLog = <<>>
    /\ run = 1
    /\ firstRun = NoRun

\* The script starts, the platform holding at most b items for it.
InitRun(b) ==
    /\ InitCommon
    /\ config \in {ConfigOf(n) : n \in 0..MaxRepos}
    /\ budget = b
    /\ reportFile \in {NoFile, OldReport}
    /\ token \in CredValues
    /\ user \in CredValues
    /\ i = 1
    /\ allData = <<>>
    /\ fetchedPulls = <<>>
    /\ pc = "check"

Init == InitRun(MaxItems)
InitFair == InitRun(MaxFairItems)

(* ------------------------------ startup -------------------------------- *)
\* Lines 16-19.
CheckCredentials ==
    /\ pc = "check"
    /\ IF MissingCredentials(token, user)
       THEN /\ pc' = "exited"
            /\ exitCode' = <<1>>
       ELSE /\ pc' = "loop"
            /\ UNCHANGED exitCode
    /\ UNCHANGED <<envVars, clock, i, tryVars, allData, netVars, genVars,
                   fileVars, failed, fetchedPulls, detailLog, runVars>>

(* ---------------------------- orchestrator ----------------------------- *)
\* axios.get: the request goes out.
Send(kind, pos, repo, sha) ==
    /\ inflight' = inflight \cup {[kind |-> kind, repo |-> repo, sha |-> sha]}
    /\ reqCount' = reqCount + 1
    /\ lastReq' = [kind |-> kind, pos |-> pos, result |-> "pending"]

\* axios.get: the promise settles.
Settle(req, ok) ==
    /\ inflight' = inflight \ {req}
    /\ lastReq' = [lastReq EXCEPT !.result = IF ok THEN "ok" ELSE "fail"]

\* The catch block, lines 137-139.
Caught ==
    /\ failed' = failed \cup {i}
    /\ UNCHANGED <<i, tryVars>>

\* Line 132: getClosedIssues up to its axios.get.
CallIssues ==
    /\ pc = "loop"
    /\ MoreRepos(i, config)
    /\ Send("issues", i, config[i].name, 0)
    /\ pc' = Await("await_issues", "call_prs")
    /\ UNCHANGED <<envVars, clock, exitCode, i, tryVars, allData, genVars,
                   fileVars, failed, fetchedPulls, detailLog, runVars>>

\* Lines 30-31 and 132: the issues list, or the failure.
RecvIssues ==
    /\ pc = "await_issues"
    /\ \E req \in inflight :
          /\ req.kind = "issues"
          /\ \/ /\ Settle(req, FALSE)
                /\ Caught
                /\ pc' = CatchTarget("issues")
             \/ \E len \in 0..Room :
                   /\ Settle(req, TRUE)
                   /\ issues' = IssuesBody(req.repo, len)
                   /\ pc' = "call_prs"
                   /\ UNCHANGED <<i, prs, commits, pullsBody, failed>>
    /\ UNCHANGED <<envVars, clock, exitCode, allData, reqCount, genVars,
                   fileVars, fetchedPulls, detailLog, runVars>>

\* Line 133: getMergedPRs up to its axios.get.
CallPRs ==
    /\ pc = "call_prs"
    /\ Send("pulls", i, config[i].name, 0)
    /\ pc' = Await("await_prs", "call_commits")
    /\ UNCHANGED <<envVars, clock, exitCode, i, tryVars, allData, genVars,
                   fileVars, failed, fetchedPulls, detailLog, runVars>>

\* Lines 37-38 and 133: the closed pull requests, filtered, or the failure.
RecvPRs ==
    /\ pc = "await_prs"
    /\ \E req \in inflight :
          /\ req.kind = "pulls"
          /\ \/ /\ Settle(req, FALSE)
                /\ Caught
                /\ pc' = CatchTarget("pulls")
             \/ \E kinds \in SeqsUpTo(PRKinds, Room) :
                   /\ Settle(req, TRUE)
                   /\ pullsBody' = PullsBody(req.repo, kinds)
                   /\ prs' = MergedPRs(pullsBody', user)
                   /\ pc' = "call_commits"
                   /\ UNCHANGED <<i, issues, commits, failed>>
    /\ UNCHANGED <<envVars, clock, exitCode, allData, reqCount, genVars,
                   fileVars, fetchedPulls, detailLog, runVars>>

\* Line 134: getTodaysCommits up to its axios.get.
CallCommits ==
    /\ pc = "call_commits"
    /\ Send("commits", i, config[i].name, 0)
    /\ pc' = Await("await_commits", "push")
    /\ UNCHANGED <<envVars, clock, exitCode, i, tryVars, allData, genVars,
                   fileVars, failed, fetchedPulls, detailLog, runVars>>

\* Lines 46-51 and 134: the commits, projected, or the failure.
RecvCommits ==
    /\ pc = "await_commits"
    /\ \E req \in inflight :
          /\ req.kind = "commits"
          /\ \/ /\ Settle(req, FALSE)
                /\ Caught
                /\ pc' = CatchTarget("commits")
             \/ \E len \in 0..Room :
                   /\ Settle(req, TRUE)
                   /\ commits' = ProjectCommits(CommitsBody(req.repo, len))
                   /\ pc' = "push"
                   /\ UNCHANGED <<i, issues, prs, pullsBody, failed>>
    /\ UNCHANGED <<envVars, clock, exitCode, allData, reqCount, genVars,
                   fileVars, fetchedPulls, detailLog, runVars>>

\* Line 136.
PushEntry ==
    /\ pc = "push"
    /\ allData' = Push(allData, [repo |-> config[i].name, label |-> config[i].label,
                                 issues |-> issues, prs |-> prs, commits |-> commits])
    /\ fetchedPulls' = Append(fetchedPulls, [repo |-> config[i].name, body |-> pullsBody])
    /\ issues' = <<>> /\ prs' = <<>> /\ commits' = <<>> /\ pullsBody' = <<>>
    /\ pc' = "next"
    /\ UNCHANGED <<envVars, clock, exitCode, i, netVars, genVars, fileVars,
                   failed, detailLog, runVars>>

\* Line 126: the for-of loop steps to the next repository; the locals of the
\* try block go out of scope.
NextRepo ==
    /\ pc = "next"
    /\ i' = i + 1
    /\ issues' = <<>> /\ prs' = <<>> /\ commits' = <<>> /\ pullsBody' = <<>>
    /\ pc' = "loop"
    /\ UNCHANGED <<envVars, clock, exitCode, allData, netVars, genVars,
                   fileVars, failed, fetchedPulls, detailLog, runVars>>

\* Line 142: the loop is over, generateReport is called.
EndLoop ==
    /\ pc = "loop"
    /\ ~MoreRepos(i, config)
    /\ pc' = "generate"
    /\ UNCHANGED <<envVars, clock, exitCode, i, tryVars, allData, netVars,
                   genVars, fileVars, failed, fetchedPulls, detailLog, runVars>>

(* ---------------------------- generateReport --------------------------- *)
\* Lines 68-69.
GenStart ==
    /\ pc = "generate"
    /\ content' = StartContent(content, clock)
    /\ gi' = 1
    /\ ci' = 1
    /\ detailLog' = <<>>
    /\ pc' = "gen_repo"
    /\ UNCHANGED <<envVars, clock, exitCode, i, tryVars, allData, netVars,
                   files, fileVars, failed, fetchedPulls, runVars>>

\* Lines 71-96.
GenRepo ==
    /\ pc = "gen_repo"
    /\ MoreEntries(gi, allData)
    /\ content' = content \o SectionHead(allData[gi])
    /\ ci' = 1
    /\ pc' = "gen_commit"
    /\ UNCHANGED <<envVars, clock, exitCode, i, tryVars, allData, netVars, gi,
                   files, fileVars, failed, fetchedPulls, detailLog, runVars>>

\* Lines 97-101: the commit's heading and link, then getModifiedFiles up to
\* its axios.get.
GenCommitCall ==
    /\ pc = "gen_commit"
    /\ ci <= Len(allData[gi].commits)
    /\ content' = content \o CommitHead(allData[gi].commits[ci])
    /\ Send("detail", gi, allData[gi].repo, allData[gi].commits[ci].sha)
    /\ pc' = Await("await_files", "render_files")
    /\ UNCHANGED <<envVars, clock, exitCode, i, tryVars, allData, gi, ci,
                   files, fileVars, failed, fetchedPulls, detailLog, runVars>>

\* Lines 58-63: the payload, or the caught failure and the empty list.
RecvFiles ==
    /\ pc = "await_files"
    /\ \E req \in inflight :
          /\ req.kind = "detail"
          /\ \/ /\ Settle(req, FALSE)
                /\ files' = <<>>
                /\ detailLog' = Append(detailLog, [repo |-> req.repo, sha |-> req.sha,
                                                   ok |-> FALSE, body |-> NoBody])
             \/ \E body \in DetailBodies :
                   /\ Settle(req, TRUE)
                   /\ files' = ExtractFiles(body)
                   /\ detailLog' = Append(detailLog, [repo |-> req.repo, sha |-> req.sha,
                                                      ok |-> TRUE, body |-> body])
    /\ pc' = "render_files"
    /\ UNCHANGED <<envVars, clock, exitCode, i, tryVars, allData, reqCount,
                   content, gi, ci, fileVars, failed, fetchedPulls, runVars>>

\* Lines 102-112.
RenderFiles ==
    /\ pc = "render_files"
    /\ content' = content \o FileLines(files)
    /\ files' = <<>>
    /\ ci' = ci + 1
    /\ pc' = "gen_commit"
    /\ UNCHANGED <<envVars, clock, exitCode, i, tryVars, allData, netVars, gi,
                   fileVars, failed, fetchedPulls, detailLog, runVars>>

\* The commit loop of one repository is over.
GenCommitsDone ==
    /\ pc = "gen_commit"
    /\ ci > Len(allData[gi].commits)
    /\ gi' = gi + 1
    /\ pc' = "gen_repo"
    /\ UNCHANGED <<envVars, clock, exitCode, i, tryVars, allData, netVars,
                   content, ci, files, fileVars, failed, fetchedPulls,
                   detailLog, runVars>>

\* Lines 116-117: fs.writeFile is called and generateReport suspends on it.
WriteCall ==
    /\ pc = "gen_repo"
    /\ ~MoreEntries(gi, allData)
    /\ writeAttempts' = writeAttempts + 1
    /\ pc' = "await_write"
    /\ UNCHANGED <<envVars, clock, exitCode, i, tryVars, allData, netVars,
                   genVars, reportFile, writes, failed, fetchedPulls, detailLog,
                   runVars>>

\* fs.writeFile opens the file for writing: it is created if missing and
\* truncated, before any of the text is in it.
WriteOpened ==
    /\ pc = "await_write"
    /\ reportFile' = <<>>
    /\ pc' = "writing"
    /\ UNCHANGED <<envVars, clock, exitCode, i, tryVars, allData, netVars,
                   genVars, writeAttempts, writes, failed, fetchedPulls,
                   detailLog, runVars>>

\* Lines 117-120 and the end of the main function: the text is in the file,
\* the promise resolves, the script ends.
WriteDone ==
    /\ pc = "writing"
    /\ reportFile' = content
    /\ writes' = writes + 1
    /\ pc' = "done"
    /\ exitCode' = <<0>>
    /\ UNCHANGED <<envVars, clock, i, tryVars, allData, netVars, genVars,
                   writeAttempts, failed, fetchedPulls, detailLog, runVars>>

\* Line 117 rejects.  If the file could not be opened it is as it was; if
\* the failure came after the open, the file holds whatever part of the text
\* had been written.  The rejection leaves generateReport and, nothing
\* catching it, the main promise: the runtime ends the process on the
\* unhandled rejection with exit status 1.
WriteFailed ==
    /\ \/ /\ pc = "await_write"
          /\ UNCHANGED reportFile
       \/ /\ pc = "writing"
          /\ reportFile' \in TruncatedFiles(content)
    /\ pc' = "crashed"
    /\ exitCode' = <<1>>
    /\ UNCHANGED <<envVars, clock, i, tryVars, allData, netVars, genVars,
                   writeAttempts, writes, failed, fetchedPulls, detailLog,
                   runVars>>

Next ==
    \/ CheckCredentials
    \/ CallIssues
    \/ RecvIssues
    \/ CallPRs
    \/ RecvPRs
    \/ CallCommits
    \/ RecvCommits
    \/ PushEntry
    \/ NextRepo
    \/ EndLoop
    \/ GenStart
    \/ GenRepo
    \/ GenCommitCall
    \/ RecvFiles
    \/ RenderFiles
    \/ GenCommitsDone
    \/ WriteCall
    \/ WriteOpened
    \/ WriteDone
    \/ WriteFailed

Spec == Init /\ [][Next]_vars

\* Every request eventually returns or fails, and the one thread of control
\* runs whenever it can.
SpecFair == InitFair /\ [][Next]_vars /\ WF_vars(Next)

(* -------------- generateReport called twice on the same input ---------- *)
RECURSIVE Inputs(_, _)
\* The accumulated lists of at most `room` items over the configured
\* repositories from position p on.
Inputs(p, room) ==
    IF p > Len(config) THEN {<<>>}
    ELSE UNION {{<<[repo |-> config[p].name, label |-> config[p].label,
               issues |-> IssuesBody(config[p].name, n[1]),
               prs |-> MergedPRs(PullsBody(config[p].name,
                                           [k \in 1..n[2] |-> [merged_at |-> Ts,
                                                               login |-> Me]]), Me),
               commits |-> ProjectCommits(CommitsBody(config[p].name, n[3]))]>>
               \o rest : rest \in Inputs(p + 1, room - (n[1] + n[2] + n[3]))} :
              n \in {m \in (0..room) \X (0..room) \X (0..room) :
                        m[1] + m[2] + m[3] <= room}}

InitGen ==
    /\ InitCommon
    /\ config \in {ConfigOf(n) : n \in 0..MaxRepos}
    /\ budget = MaxGenItems
    /\ reportFile = NoFile
    /\ token = "set"
    /\ user = Me
    /\ i = Len(config) + 1
    /\ allData \in Inputs(1, budget)
    /\ fetchedPulls = <<>>
    /\ pc = "generate"

\* The first call has returned; generateReport is called again with the same
\* allData, possibly on another day.
Rerun ==
    /\ pc = "done"
    /\ run = 1
    /\ firstRun' = [date |-> clock, log |-> detailLog, output |-> reportFile]
    /\ run' = 2
    /\ clock' \in Dates
    /\ pc' = "generate"
    /\ exitCode' = <<>>
    /\ UNCHANGED <<envVars, i, tryVars, allData, netVars, genVars, fileVars,
                   failed, fetchedPulls, detailLog>>

NextGen ==
    \/ GenStart
    \/ GenRepo
    \/ GenCommitCall
    \/ RecvFiles
    \/ RenderFiles
    \/ GenCommitsDone
    \/ WriteCall
    \/ WriteOpened
    \/ WriteDone
    \/ WriteFailed
    \/ Rerun

SpecGen == InitGen /\ [][NextGen]_vars

(* ======================================================================= *)
(*                               properties                                *)
(* ======================================================================= *)
\* This run's write completed: the file holds the report.
Written == writes > 0 /\ reportFile = content
\* The file is as it was before the run.
Untouched == reportFile \in {NoFile, OldReport}
Terminated == pc \in {"exited", "crashed", "done"}
CredentialAbsent == Falsy(token) \/ Falsy(user)
Collectors == {"issues", "pulls", "commits"}
FetchPcs == {"loop", "await_issues", "call_prs", "await_prs", "call_commits",
             "await_commits", "push", "next"}
GenPcs == {"generate", "gen_repo", "gen_commit", "await_files", "render_files",
           "await_write", "writing"}

Positions == [p \in 1..Len(config) |-> p]
\* Configuration positions at which no collector call failed, in order.
Fetched == SelectSeq(Positions, LAMBDA p : p \notin failed)
\* The lines of the report of one kind, in order.
LinesOf(kind) == SelectSeq(reportFile, LAMBDA l : l[1] = kind)
LabelsOf(kind) == [k \in 1..Len(LinesOf(kind)) |-> LinesOf(kind)[k][2]]

(* C1: the written report has exactly one repository section (heading and  *)
(* its three sub-headings) for each configured repository whose three      *)
(* collector calls all succeeded, in configuration order, and no line at   *)
(* all that belongs to a repository where a collector call failed.         *)
C1_OneSectionPerFetchedRepo ==
    Written =>
        /\ [k \in 1..Len(LinesOf("repo")) |-> LinesOf("repo")[k][3]]
               = [k \in 1..Len(Fetched) |-> config[Fetched[k]].name]
        /\ \A kind \in {"repo", "issues_h", "prs_h", "commits_h"} :
               LabelsOf(kind) = [k \in 1..Len(Fetched) |-> config[Fetched[k]].label]
        /\ \A k \in 1..Len(reportFile) :
               /\ reportFile[k][1] = "link" => reportFile[k][3][3] \notin failed
               /\ reportFile[k][1] = "ver" => reportFile[k][2][3] \notin failed

\* Two repositories configured, the first fetched, the second failed: one section.
C1_Witness ==
    /\ Written
    /\ Len(config) = 2
    /\ failed = {2}
    /\ Len(LinesOf("repo")) = 1

(* C2: the exit status is 1 only when a credential is absent at startup;   *)
(* every other run ends with exit status 0, whatever fails on the way.     *)
C2_ExitOneOnlyWithoutCredentials ==
    /\ exitCode = <<1>> => CredentialAbsent
    /\ (Terminated /\ ~CredentialAbsent) => exitCode = <<0>>

(* C3: with the token or the account absent the process exits with status  *)
(* 1, no request is ever issued and the report file is never written.      *)
C3_NoCredentialsNoNetwork ==
    CredentialAbsent =>
        /\ reqCount = 0
        /\ inflight = {}
        /\ writeAttempts = 0
        /\ writes = 0
        /\ Untouched
        /\ pc \in {"check", "exited"}
        /\ pc = "exited" => exitCode = <<1>>
        /\ pc = "check" => exitCode = <<>>

\* The token is there, the account is not, and the process has exited.
C3_Witness ==
    /\ token = "set"
    /\ user = Unset
    /\ pc = "exited"
    /\ exitCode = <<1>>

RECURSIVE FlatCommits(_)
\* The commits of all accumulated entries, in report order.
FlatCommits(all) ==
    IF Len(all) = 0 THEN <<>>
    ELSE [n \in 1..Len(all[1].commits) |->
             [repo |-> all[1].repo, sha |-> all[1].commits[n].sha]]
         \o FlatCommits(Tail(all))

(* C4 as claimed: when the Report Generator runs, every file-detail        *)
(* request is already over; the generator issues no request.               *)
C4_NoRequestInsideGenerator ==
    pc \in GenPcs => (inflight = {} /\ lastReq.kind # "detail")

(* C4 as amended: commit file lists are resolved by the Report Generator   *)
(* itself.  No file-detail request is issued during the fetching loop;     *)
(* inside the generator a commit's request has been answered before its    *)
(* file lines are rendered, and when the file is written every commit of   *)
(* the accumulated list has had its request answered, in report order,     *)
(* and none is outstanding.                                                *)
C4_FilesResolvedInsideGenerator ==
    /\ \A r \in inflight : r.kind = "detail" => pc = "await_files"
    /\ pc \in FetchPcs => (detailLog = <<>> /\ lastReq.kind # "detail")
    /\ pc = "render_files" =>
          /\ Len(detailLog) > 0
          /\ detailLog[Len(detailLog)].repo = allData[gi].repo
          /\ detailLog[Len(detailLog)].sha = allData[gi].commits[ci].sha
    /\ writeAttempts > 0 =>
          /\ inflight = {}
          /\ Len(detailLog) = Len(FlatCommits(allData))
          /\ \A k \in 1..Len(detailLog) :
                 /\ detailLog[k].repo = FlatCommits(allData)[k].repo
                 /\ detailLog[k].sha = FlatCommits(allData)[k].sha

\* The report of a run with two commits is written after both answers came.
C4_Witness ==
    /\ Written
    /\ Len(detailLog) = 2
    /\ lastReq.kind = "detail"

\* What the report must show for one commit, given the answer it got.
ExpectedCommitLines(d) ==
    <<<<"commit", <<"msg", d.repo, d.sha>>>>>>
       \o (IF d.ok /\ d.body.hasFiles /\ Len(d.body.files) > 0
           THEN <<<<"archivos">>>>
                \o [j \in 1..Len(d.body.files) |-> <<"file", d.body.files[j].filename>>]
           ELSE <<<<"sin_archivos">>>>)
RECURSIVE ExpectedAllCommitLines(_)
ExpectedAllCommitLines(log) ==
    IF Len(log) = 0 THEN <<>>
    ELSE ExpectedCommitLines(log[1]) \o ExpectedAllCommitLines(Tail(log))
\* The commits the detail requests were about, in request order.
Requested ==
    [k \in 1..Len(detailLog) |-> [repo |-> detailLog[k].repo, sha |-> detailLog[k].sha]]
ReportCommitLines ==
    SelectSeq(reportFile,
              LAMBDA l : l[1] \in {"commit", "archivos", "file", "sin_archivos"})

(* C5: a failed file-detail request costs only its own commit its file     *)
(* list: that commit shows the placeholder, every commit of every          *)
(* accumulated repository is still requested and rendered, the write is    *)
(* still attempted, and a commit whose payload lists files shows exactly   *)
(* those paths in order.                                                   *)
C5_DetailFailureIsolated ==
    /\ (\E k \in 1..Len(detailLog) : ~detailLog[k].ok) => pc \in GenPcs \cup {"done", "crashed"}
    /\ writeAttempts > 0 => Requested = FlatCommits(allData)
    /\ Written =>
          /\ ReportCommitLines = ExpectedAllCommitLines(detailLog)
          /\ Len(LinesOf("sep")) = Len(FlatCommits(allData))

\* First commit's request failed, the second answered with two files.
C5_Witness ==
    /\ Written
    /\ Len(detailLog) = 2
    /\ ~detailLog[1].ok
    /\ detailLog[2].ok
    /\ detailLog[2].body.hasFiles
    /\ Len(detailLog[2].body.files) = 2
    /\ Len(LinesOf("file")) = 2
    /\ Len(LinesOf("sin_archivos")) = 1

(* C6 as claimed: two calls of the Report Generator on the same list give  *)
(* the same text.                                                          *)
C6_SameInputSameOutput ==
    (run = 2 /\ pc = "done") => reportFile = firstRun.output

(* C6 as amended: two calls of the Report Generator on the same list, on   *)
(* the same date and with the same answers to the file-detail requests,    *)
(* give the same text.                                                     *)
C6_SameInputDateAndAnswersSameOutput ==
    (run = 2 /\ pc = "done" /\ clock = firstRun.date /\ detailLog = firstRun.log)
        => reportFile = firstRun.output

\* A second call on the same day that saw the same answer, a payload with
\* files, for the commit of the list, and wrote the same text again.
C6_Witness ==
    /\ run = 2
    /\ pc = "done"
    /\ clock = firstRun.date
    /\ detailLog = firstRun.log
    /\ Len(detailLog) > 0
    /\ Len(detailLog[1].body.files) = MaxFiles
    /\ reportFile = firstRun.output

(* C7: every run that passes the credential check ends in DONE with the    *)
(* report file written exactly once, whatever fails among the repository   *)
(* fetches and the commit-detail fetches.                                  *)
C7_ReportAlwaysWritten ==
    (Terminated /\ ~CredentialAbsent) => (pc = "done" /\ writes = 1 /\ Written)

\* What holds of the code as it is: failures of repository fetches and of
\* commit-detail fetches never stop the run before the write, which is called
\* exactly once.  The run ends in DONE with the report in the file when that
\* call succeeds; when it rejects, nothing catches the rejection and the run
\* ends with status 1, the file as it was or holding part of the text.
FetchFailuresNeverStopTheRun ==
    (pc = "loop") ~>
        (/\ pc \in {"done", "crashed"}
         /\ writeAttempts = 1
         /\ pc = "done" => (writes = 1 /\ reportFile = content /\ exitCode = <<0>>)
         /\ pc = "crashed" =>
               /\ writes = 0
               /\ exitCode = <<1>>
               /\ Untouched \/ reportFile \in TruncatedFiles(content))

\* Positions in a received pull-request list of the requests that are
\* merged and authored by the configured account.
Qualifying(body) ==
    SelectSeq([n \in 1..Len(body) |-> n],
              LAMBDA n : /\ body[n].merged_at # Null
                         /\ body[n].user.login = user)
\* Positions of the pull requests linked in the report for one repository.
ReportedPulls(repo) ==
    LET ls == SelectSeq(reportFile,
                        LAMBDA l : /\ l[1] = "link"
                                   /\ l[3][2] = "pull"
                                   /\ l[3][3] = repo)
    IN [k \in 1..Len(ls) |-> ls[k][3][4]]

(* C8: the pull requests shown in a repository's section are exactly the   *)
(* ones the platform returned with both a merge timestamp and the          *)
(* configured account as author, in the order returned.                    *)
C8_OnlyOwnMergedPullRequests ==
    Written =>
        /\ Len(fetchedPulls) = Len(Fetched)
        /\ \A k \in 1..Len(fetchedPulls) :
               /\ fetchedPulls[k].repo = config[Fetched[k]].name
               /\ ReportedPulls(fetchedPulls[k].repo) = Qualifying(fetchedPulls[k].body)
        /\ \A p \in failed : ReportedPulls(config[p].name) = <<>>

\* A list of two pull requests of which only the second qualifies: the first
\* is merged but authored by someone else.
C8_Witness ==
    /\ Written
    /\ \E k \in 1..Len(fetchedPulls) :
          /\ Len(fetchedPulls[k].body) = 2
          /\ fetchedPulls[k].body[1].merged_at # Null
          /\ fetchedPulls[k].body[1].user.login = Other
          /\ Qualifying(fetchedPulls[k].body) = <<2>>
          /\ ReportedPulls(fetchedPulls[k].repo) = <<2>>

(* C9: at most one request is outstanding at any time, and one is          *)
(* outstanding exactly while the script is suspended on it.                *)
C9_OneRequestAtATime ==
    /\ Cardinality(inflight) <= 1
    /\ inflight # {} <=> lastReq.result = "pending"
    /\ inflight # {} <=> pc \in {"await_issues", "await_prs", "await_commits",
                                 "await_files"}

\* The fourth request of a run, a file-detail request, is the only one in flight.
C9_Witness ==
    /\ reqCount = 4
    /\ Cardinality(inflight) = 1
    /\ \E r \in inflight : r.kind = "detail"

NextStage(kind) == IF kind = "issues" THEN "pulls" ELSE "commits"

(* C10: collector requests go issues, pull requests, commits for one       *)
(* repository, each at most once, stopping at the first that fails; after  *)
(* a failure or after the commits request the next collector request is    *)
(* the issues request of the next repository; file-detail requests start   *)
(* only after the last repository ended so.                                *)
C10_CollectorOrder ==
    [][reqCount' = reqCount + 1 =>
          /\ lastReq.result # "pending"
          /\ lastReq'.kind \in Collectors =>
                IF lastReq.kind = "none"
                THEN lastReq'.kind = "issues" /\ lastReq'.pos = 1
                ELSE /\ lastReq.kind \in Collectors
                     /\ IF lastReq.result = "ok" /\ lastReq.kind # "commits"
                        THEN /\ lastReq'.kind = NextStage(lastReq.kind)
                             /\ lastReq'.pos = lastReq.pos
                        ELSE /\ lastReq'.kind = "issues"
                             /\ lastReq'.pos = lastReq.pos + 1
          /\ (lastReq'.kind = "detail" /\ lastReq.kind # "detail") =>
                /\ lastReq.kind \in Collectors
                /\ lastReq.pos = Len(config)
                /\ (lastReq.result = "fail" \/ lastReq.kind = "commits")
    ]_vars

\* The pull-request request of the first repository failed and the next
\* request is the issues request of the second repository.
C10_Witness ==
    /\ failed = {1}
    /\ reqCount = 3
    /\ lastReq = [kind |-> "issues", pos |-> 2, result |-> "pending"]

====
